---------------------------- MODULE Spec2Model ----------------------------
(***************************************************************************)
(* Model of app.py: the two media endpoints (tiktok_stream, tiktok_mp3),   *)
(* the bearer-token check, the per-user hourly usage counter kept in the   *)
(* api_usage table, and the subprocess / temporary-directory life cycle.   *)
(*                                                                         *)
(* The server runs threaded (app.run(threaded=True)): every request is a   *)
(* thread, and the actions of different requests interleave freely.        *)
(***************************************************************************)
EXTENDS Integers, Sequences, FiniteSets, TLC

(***************************************************************************)
(* Bounds of the model.                                                    *)
(***************************************************************************)
MaxHour == 1       \* the clock runs over the hours 0..MaxHour
MaxChunks == 3     \* chunks the video subprocess writes to its stdout
PipeCap == 1       \* chunks a pipe holds before a write to it blocks

(***************************************************************************)
(* Program constants.                                                      *)
(***************************************************************************)
QUOTA_PER_HOUR == 30      \* app.py:38
maxconn == 10             \* app.py:54
MIN_FILE_SIZE == 1024     \* app.py:243, app.py:254
CHUNK == 8192             \* app.py:184, app.py:264

Req == {"r1", "r2"}       \* the request threads
Users == {"u1", "u2"}
Hours == 0..MaxHour
Endpoints == {"stream", "mp3"}
None == "None"

(***************************************************************************)
(* Authorization headers.  A header is absent, of another scheme, or       *)
(* "Bearer <token>"; a token is described by what jwt.decode checks.       *)
(***************************************************************************)
Hdr(scheme, sig, iss, aud, live, sub) ==
    [scheme |-> scheme, sig |-> sig, iss |-> iss, aud |-> aud, live |-> live, sub |-> sub]

NoHeader == Hdr("absent", FALSE, FALSE, FALSE, FALSE, None)

GoodHeaders == {Hdr("Bearer", TRUE, TRUE, TRUE, TRUE, u) : u \in Users}

BadHeaders ==
    { NoHeader,
      Hdr("Basic", TRUE, TRUE, TRUE, TRUE, "u1"),
      Hdr("Bearer", FALSE, TRUE, TRUE, TRUE, "u1"),
      Hdr("Bearer", TRUE, FALSE, TRUE, TRUE, "u1"),
      Hdr("Bearer", TRUE, TRUE, FALSE, TRUE, "u1"),
      Hdr("Bearer", TRUE, TRUE, TRUE, FALSE, "u1"),
      Hdr("Bearer", TRUE, TRUE, TRUE, TRUE, None) }

Headers == GoodHeaders \cup BadHeaders

\* Before the request has read its header.
Unread == Hdr("unread", FALSE, FALSE, FALSE, FALSE, None)

\* jwt.decode(token, key, algorithms, audience, issuer): raises unless the
\* signature, the issuer, the audience and the expiry all check.
jwt_decode_ok(h) == h.sig /\ h.iss /\ h.aud /\ h.live

\* Mutant: the expiry of the token is not checked.
verify_no_expiry(h) ==
    IF h.scheme # "Bearer" THEN None
    ELSE IF h.sig /\ h.iss /\ h.aud THEN h.sub
    ELSE None

\* verify_jwt_and_get_user: None without a Bearer header, None when the
\* decoding raises (every exception is caught), else the payload's sub.
verify_jwt_and_get_user(h) ==
    IF h.scheme # "Bearer" THEN None
    ELSE IF jwt_decode_ok(h) THEN h.sub
    ELSE None

(***************************************************************************)
(* Request bodies.  A URL is a sequence of text pieces, so that the regular *)
(* expression's search for a substring is a search over the pieces.        *)
(***************************************************************************)
UrlWww     == <<"https://", "www.", "tiktok.com", "/@u/video/1">>
UrlVm      == <<"https://", "vm.", "tiktok.com", "/ZM1">>
UrlOther   == <<"https://", "example.com", "/v/1">>
UrlInPath  == <<"https://", "example.com", "/?u=", "tiktok.com">>
UrlInHost  == <<"https://", "tiktok.com", ".example.net", "/v/1">>

Urls == {UrlWww, UrlVm, UrlOther, UrlInPath, UrlInHost}

\* What request.get_json(silent=True) gives: None (no or malformed JSON),
\* a JSON value that is not an object, or an object whose "url" is absent,
\* null, a non-string, or a string.
Body(kind, url) == [kind |-> kind, url |-> url]

\* The url has gone into a subprocess's command line, its last use.
Passed == Body("passed", <<>>)

Bodies ==
    { Body(k, <<>>) : k \in {"nojson", "emptyobj", "list", "nourl", "nullurl", "numurl"} }
    \cup { Body("str", <<>>) }
    \cup { Body("str", u) : u \in Urls }

\* re.search(r"(vm\.tiktok\.com|tiktok\.com)", url): a match anywhere.
is_valid_tiktok_url(url) ==
    \E i \in 1..Len(url) :
        \/ (url[i] = "vm." /\ i < Len(url) /\ url[i + 1] = "tiktok.com")
        \/ url[i] = "tiktok.com"

(***************************************************************************)
(* Responses.                                                              *)
(***************************************************************************)
Resp(status, body, reset_at, clen) ==
    [status |-> status, body |-> body, reset_at |-> reset_at, clen |-> clen]

NoResp == Resp(0, "", -1, 0)

\* An exception that leaves the view function: Flask answers 500.
Unhandled == Resp(500, "Internal Server Error", -1, 0)

VARIABLES
    hour,        \* the wall clock, in hours
    committed,   \* api_usage as committed: [user -> [hour_bucket -> count]], 0 = no row
    txn,         \* per request: the open transaction of its connection
    db_pool,     \* the global db_pool: None, or the pool made by that request
    used,        \* per pool: its connections in use
    conn,        \* per request: the pool its connection came from
    pc,          \* per request: where its thread stands
    ep,          \* per request: the endpoint called
    auth,        \* per request: the Authorization header read
    user_id,     \* per request: verify_jwt_and_get_user()'s result
    count,       \* per request: increment_usage()'s result
    body,        \* per request: the body read
    resp,        \* per request: the response returned
    tempdir,     \* per request: the mkdtemp directory: none, exists, removed
    files,       \* per request: sizes of video.mp4 and audio.mp3 (-1: no file)
    proc,        \* per request: the subprocess spawned
    sent,        \* per request: chunks handed to the client
    gone,        \* per request: the client has disconnected
    log          \* per request: what the request has done (history)

vars == <<hour, committed, txn, db_pool, used, conn, pc, ep, auth, user_id, count, body,
          resp, tempdir, files, proc, sent, gone, log>>

NoTxn == [open |-> FALSE, user |-> None, bucket |-> -1, count |-> 0]

NoProc == [st |-> "none", avail |-> 0, left |-> 0, rc |-> 0]

NoFiles == [video |-> -1, audio |-> -1, unread |-> 0]

\* History of a request: statements and spawns it performed.
\* upserts: upsert statements executed, bucket: the hour_bucket they counted in,
\* failed: the store failed in increment_usage, probes: metadata probes made,
\* spawns: programs started, cleanups: rmtree calls, audio: the size of audio.mp3
\* when the transcoder exited with status 0 (-2 before that), size: the
\* filesize the probe returned (-2 before that, 0: none), video: the size of
\* video.mp4 when the download exited with status 0 (-2 before that).
NoLog == [upserts |-> 0, bucket |-> -1, failed |-> FALSE, probes |-> 0, spawns |-> <<>>,
          cleanups |-> 0, audio |-> -2, size |-> -2, video |-> -2]

\* The table as the server finds it: for the hour 0, u1 has used its quota
\* but for one request and u2 has used it up; there is no row for a later hour.
InitRow(u, h) ==
    IF h # 0 THEN 0
    ELSE IF u = "u1" THEN QUOTA_PER_HOUR - 1
    ELSE QUOTA_PER_HOUR

Init ==
    /\ hour = 0
    /\ committed = [u \in Users |-> [h \in Hours |-> InitRow(u, h)]]
    /\ txn = [r \in Req |-> NoTxn]
    /\ db_pool = None
    /\ used = [p \in Req |-> 0]
    /\ conn = [r \in Req |-> None]
    /\ pc = [r \in Req |-> "idle"]
    /\ ep = [r \in Req |-> None]
    /\ auth = [r \in Req |-> Unread]
    /\ user_id = [r \in Req |-> None]
    /\ count = [r \in Req |-> 0]
    /\ body = [r \in Req |-> Body("unread", <<>>)]
    /\ resp = [r \in Req |-> NoResp]
    /\ tempdir = [r \in Req |-> "none"]
    /\ files = [r \in Req |-> NoFiles]
    /\ proc = [r \in Req |-> NoProc]
    /\ sent = [r \in Req |-> 0]
    /\ gone = [r \in Req |-> FALSE]
    /\ log = [r \in Req |-> NoLog]

(***************************************************************************)
(* Helpers.                                                                *)
(***************************************************************************)
Finish(r, response) ==
    /\ pc' = [pc EXCEPT ![r] = "done"]
    /\ resp' = [resp EXCEPT ![r] = response]

Goto(r, where) == pc' = [pc EXCEPT ![r] = where]

\* The clock passes to the next hour.
Tick ==
    /\ hour < MaxHour
    /\ hour' = hour + 1
    /\ UNCHANGED <<committed, txn, db_pool, used, conn, pc, ep, auth, user_id, count, body,
                   resp, tempdir, files, proc, sent, gone, log>>

(***************************************************************************)
(* Entry of both view functions: the method, then the token.               *)
(***************************************************************************)
\* A request reaches one of the two routes; OPTIONS is answered at once.
Arrive(r) ==
    /\ pc[r] = "idle"
    /\ \E e \in Endpoints, m \in {"POST", "OPTIONS"} :
        /\ ep' = [ep EXCEPT ![r] = e]
        /\ IF m = "OPTIONS"
           THEN Finish(r, Resp(200, "", -1, 0))
           ELSE Goto(r, "verify") /\ UNCHANGED resp
    /\ UNCHANGED <<hour, committed, txn, db_pool, used, conn, auth, user_id, count, body,
                   tempdir, files, proc, sent, gone, log>>

\* user_id = verify_jwt_and_get_user(); if not user_id: 401.
Verify(r) ==
    /\ pc[r] = "verify"
    /\ \E h \in Headers :
        /\ auth' = [auth EXCEPT ![r] = h]
        /\ user_id' = [user_id EXCEPT ![r] = verify_jwt_and_get_user(h)]
        /\ IF verify_jwt_and_get_user(h) = None
           THEN Finish(r, Resp(401, "Unauthorized", -1, 0))
           ELSE Goto(r, "getconn") /\ UNCHANGED resp
    /\ UNCHANGED <<hour, committed, txn, db_pool, used, conn, ep, count, body,
                   tempdir, files, proc, sent, gone, log>>

(***************************************************************************)
(* increment_usage: get_conn, the upsert, release_conn in the finally.     *)
(***************************************************************************)
\* Mutant: the failure is swallowed and the request goes on (fail-open).
increment_usage_swallows(failed) == FALSE

\* Whether a failure of the store inside increment_usage reaches the caller:
\* increment_usage has a try/finally and no except clause.
increment_usage_raises(failed) == failed

\* get_db_pool() finds db_pool is None: the pool is to be made.  The test
\* and the assignment are two steps of the thread: another thread may test,
\* or assign, between them.
FindNoPool(r) ==
    /\ pc[r] = "getconn"
    /\ db_pool = None
    /\ Goto(r, "mkpool")
    /\ UNCHANGED <<hour, committed, txn, db_pool, used, conn, ep, auth, user_id, count,
                   body, resp, tempdir, files, proc, sent, gone, log>>

\* db_pool = pool.SimpleConnectionPool(minconn=1, maxconn=10, dsn=DB_URL):
\* the constructor connects, and raises when it cannot; else the global is
\* assigned, whatever it held.
MakePool(r) ==
    /\ pc[r] = "mkpool"
    /\ \/ /\ db_pool' = r
          /\ Goto(r, "getconn")
          /\ UNCHANGED <<resp, log>>
       \/ /\ log' = [log EXCEPT ![r].failed = TRUE]
          /\ IF increment_usage_raises(TRUE)
             THEN Finish(r, Unhandled)
             ELSE Goto(r, "quota") /\ UNCHANGED resp
          /\ UNCHANGED db_pool
    /\ UNCHANGED <<hour, committed, txn, used, conn, ep, auth, user_id, count,
                   body, tempdir, files, proc, sent, gone>>

\* get_conn(): get_db_pool().getconn().  getconn raises PoolError when
\* maxconn connections are in use, and connecting can fail.  It is called
\* before the try, so nothing is released when it raises.
GetConn(r) ==
    /\ pc[r] = "getconn"
    /\ db_pool # None
    /\ \E failed \in BOOLEAN :
        /\ used[db_pool] >= maxconn => failed
        /\ IF failed
           THEN /\ IF increment_usage_raises(TRUE)
                   THEN Finish(r, Unhandled)
                   ELSE Goto(r, "quota") /\ UNCHANGED resp
                /\ log' = [log EXCEPT ![r].failed = TRUE]
                /\ UNCHANGED <<used, conn>>
           ELSE /\ used' = [used EXCEPT ![db_pool] = @ + 1]
                /\ conn' = [conn EXCEPT ![r] = db_pool]
                /\ Goto(r, "execute")
                /\ UNCHANGED <<resp, log>>
    /\ UNCHANGED <<hour, committed, txn, db_pool, ep, auth, user_id, count, body,
                   tempdir, files, proc, sent, gone>>

\* Another connection holds the row (user, bucket) in an open transaction:
\* the upsert waits for that transaction to end.
RowLocked(r, u, b) ==
    \E q \in Req \ {r} : txn[q].open /\ txn[q].user = u /\ txn[q].bucket = b

\* Mutant: the hour bucket is no part of the row's key.
upsert_count_no_bucket(store, u, b) == store[u][0] + 1

\* INSERT ... ON CONFLICT (user_id, hour_bucket) DO UPDATE SET count = count + 1
\* RETURNING count, on the committed row: the count the statement returns.
upsert_count(store, u, b) == store[u][b] + 1

\* cur.execute(upsert); count = cur.fetchone()[0].  The connection is not in
\* autocommit mode and the statement opens a transaction on it: the new row
\* version belongs to that transaction.  Or the statement raises.
Execute(r) ==
    /\ pc[r] = "execute"
    /\ \/ /\ ~RowLocked(r, user_id[r], hour)
          /\ txn' = [txn EXCEPT ![r] = [open |-> TRUE, user |-> user_id[r], bucket |-> hour,
                                        count |-> upsert_count(committed, user_id[r], hour)]]
          /\ log' = [log EXCEPT ![r].upserts = @ + 1, ![r].bucket = hour]
          /\ Goto(r, "release")
       \/ /\ Goto(r, "release_exc")
          /\ log' = [log EXCEPT ![r].failed = TRUE]
          /\ UNCHANGED txn
    /\ UNCHANGED <<hour, committed, db_pool, used, conn, ep, auth, user_id, count, body,
                   resp, tempdir, files, proc, sent, gone>>

\* pool.putconn(conn): a connection returned inside a transaction is rolled
\* back (increment_usage never calls conn.commit()).  The committed table
\* after the release of a connection whose transaction is t.
putconn(store, t) == store

\* finally: release_conn(conn), that is get_db_pool().putconn(conn); then
\* return count, or the exception goes on.  putconn raises PoolError on a
\* connection that is not of this pool: the connection is then dropped with
\* the frame, which closes it and ends its transaction, and the pool it came
\* from never gets it back.
Release(r) ==
    /\ pc[r] \in {"release", "release_exc"}
    /\ committed' = putconn(committed, txn[r])
    /\ txn' = [txn EXCEPT ![r] = NoTxn]
    /\ conn' = [conn EXCEPT ![r] = None]
    /\ IF conn[r] = db_pool
       THEN /\ used' = [used EXCEPT ![db_pool] = @ - 1]
            /\ IF pc[r] = "release_exc" /\ increment_usage_raises(TRUE)
               THEN Finish(r, Unhandled) /\ UNCHANGED <<count, log>>
               ELSE /\ Goto(r, "quota")
                    /\ count' = [count EXCEPT ![r] = txn[r].count]
                    /\ UNCHANGED <<resp, log>>
       ELSE /\ Finish(r, Unhandled)
            /\ log' = [log EXCEPT ![r].failed = TRUE]
            /\ UNCHANGED <<used, count>>
    /\ UNCHANGED <<hour, db_pool, ep, auth, user_id, body,
                   tempdir, files, proc, sent, gone>>

(***************************************************************************)
(* The quota check.                                                        *)
(***************************************************************************)
\* Mutant: the request that reaches the threshold is rejected.
OverQuota_ge(c) == c >= QUOTA_PER_HOUR

\* Mutant: one request more than the threshold goes through.
OverQuota_late(c) == c > QUOTA_PER_HOUR + 1

\* if count > QUOTA_PER_HOUR
OverQuota(c) == c > QUOTA_PER_HOUR

\* datetime.now(timezone.utc).replace(minute=0, second=0, microsecond=0):
\* the start of the hour the clock is in.
reset_at(now) == now

CheckQuota(r) ==
    /\ pc[r] = "quota"
    /\ IF OverQuota(count[r])
       THEN Finish(r, Resp(429, "Quota exceeded", reset_at(hour), 0))
       ELSE Goto(r, "body") /\ UNCHANGED resp
    /\ UNCHANGED <<hour, committed, txn, db_pool, used, conn, ep, auth, user_id, count, body,
                   tempdir, files, proc, sent, gone, log>>

(***************************************************************************)
(* The body: data = request.get_json(silent=True); the url; its check.     *)
(***************************************************************************)
\* tiktok_stream: url = data.get("url") if data else None
\* tiktok_mp3:    url = data.get("url").strip() if data else None
\* then: if not url or not is_valid_tiktok_url(url): 400.
\* "raise": an AttributeError or TypeError leaves the view function.
body_outcome(e, b) ==
    CASE b.kind \in {"nojson", "emptyobj"} -> "400"
      [] b.kind = "list" -> "raise"
      [] b.kind \in {"nourl", "nullurl"} -> IF e = "mp3" THEN "raise" ELSE "400"
      [] b.kind = "numurl" -> "raise"
      [] OTHER -> IF b.url = <<>> \/ ~is_valid_tiktok_url(b.url) THEN "400" ELSE "ok"

ParseBody(r) ==
    /\ pc[r] = "body"
    /\ \E b \in Bodies :
        /\ body' = [body EXCEPT ![r] = b]
        /\ CASE body_outcome(ep[r], b) = "400" ->
                    Finish(r, Resp(400, "Invalid or missing URL", -1, 0))
             [] body_outcome(ep[r], b) = "raise" -> Finish(r, Unhandled)
             [] OTHER -> Goto(r, IF ep[r] = "stream" THEN "probe" ELSE "mkdtemp")
                         /\ UNCHANGED resp
    /\ UNCHANGED <<hour, committed, txn, db_pool, used, conn, ep, auth, user_id, count,
                   tempdir, files, proc, sent, gone, log>>

(***************************************************************************)
(* The temporary directory.                                                *)
(***************************************************************************)
\* shutil.rmtree(path, ignore_errors): removes the tree; on a path that does
\* not exist it raises, unless ignore_errors.
rmtree(d, ignore_errors) ==
    IF d = "exists" THEN [dir |-> "removed", raised |-> FALSE]
    ELSE [dir |-> d, raised |-> ~ignore_errors]

\* Mutant: the cleanup without ignore_errors.
cleanup_strict(d) == rmtree(d, FALSE)

\* The cleanup of tiktok_mp3: shutil.rmtree(temp_dir, ignore_errors=True).
cleanup(d) == rmtree(d, TRUE)

Cleanup(r) ==
    /\ tempdir' = [tempdir EXCEPT ![r] = cleanup(@).dir]
    /\ files' = [files EXCEPT ![r] = NoFiles]

(***************************************************************************)
(* tiktok_stream after the checks: the probe, then the response whose body *)
(* is the generator relaying the subprocess's stdout.                      *)
(***************************************************************************)
\* What the extractor reports: filesize and filesize_approx, 0 when absent.
Infos == [filesize : {0, CHUNK}, filesize_approx : {0, CHUNK}]

\* filesize = info.get("filesize") or info.get("filesize_approx")
filesize_of(info) == IF info.filesize # 0 THEN info.filesize ELSE info.filesize_approx

\* extract_info_and_filesize(url) in a try; except Exception as e: 500 with
\* str(e); if not filesize: 500; else the Response (status 200, Content-Length)
\* is returned with the generator not yet started.
Probe(r) ==
    /\ pc[r] = "probe"
    /\ \/ /\ Finish(r, Resp(500, "extractor message", -1, 0))
          /\ log' = [log EXCEPT ![r].probes = @ + 1]
       \/ \E info \in Infos :
            /\ log' = [log EXCEPT ![r].probes = @ + 1, ![r].size = filesize_of(info)]
            /\ IF filesize_of(info) = 0
               THEN Finish(r, Resp(500, "Unable to determine file size", -1, 0))
               ELSE /\ Goto(r, "gen_ready")
                    /\ resp' = [resp EXCEPT ![r] = Resp(200, "video", -1, filesize_of(info))]
    /\ UNCHANGED <<hour, committed, txn, db_pool, used, conn, ep, auth, user_id, count, body,
                   tempdir, files, proc, sent, gone>>

\* The server iterates the response as soon as the view function has
\* returned it: the generator's body starts.
\* tiktok_stream: subprocess.Popen(cmd, stdout=PIPE, stderr=PIPE); the
\* subprocess has nothing to write to its stdout, or MaxChunks chunks.
\* tiktok_mp3: open(audio_path, "rb").
StartBody(r) ==
    /\ pc[r] = "gen_ready"
    /\ IF ep[r] = "stream"
       THEN /\ \E n \in {0, MaxChunks} :
                proc' = [proc EXCEPT ![r] = [NoProc EXCEPT !.st = "running", !.left = n]]
            /\ log' = [log EXCEPT ![r].spawns = Append(@, "yt_dlp")]
            /\ body' = [body EXCEPT ![r] = Passed]
            /\ Goto(r, "read")
            /\ UNCHANGED files
       ELSE /\ files' = [files EXCEPT ![r].unread = (files[r].audio + CHUNK - 1) \div CHUNK]
            /\ Goto(r, "read_file")
            /\ UNCHANGED <<proc, log, body>>
    /\ UNCHANGED <<hour, committed, txn, db_pool, used, conn, ep, auth, user_id, count,
                   resp, tempdir, sent, gone>>

\* The subprocess writes a chunk to its stdout; the write blocks while the
\* pipe is full.  (What it writes to its stderr is taken to fit in that pipe,
\* so that no write to stderr blocks it.)
ProcWrite(r) ==
    /\ proc[r].st = "running"
    /\ proc[r].left > 0
    /\ proc[r].avail < PipeCap
    /\ proc' = [proc EXCEPT ![r].left = @ - 1, ![r].avail = @ + 1]
    /\ UNCHANGED <<hour, committed, txn, db_pool, used, conn, pc, ep, auth, user_id, count, body,
                   resp, tempdir, files, sent, gone, log>>

\* The subprocess has written all it had, and exits.
ProcExit(r) ==
    /\ pc[r] \in {"read", "yield", "finally"}
    /\ proc[r].st = "running"
    /\ proc[r].left = 0
    /\ \E rc \in {0, 1} : proc' = [proc EXCEPT ![r].st = "exited", ![r].rc = rc]
    /\ UNCHANGED <<hour, committed, txn, db_pool, used, conn, pc, ep, auth, user_id, count, body,
                   resp, tempdir, files, sent, gone, log>>

\* chunk = process.stdout.read(8192): a chunk, or nothing at end of file
\* (break, into the finally); it blocks while the pipe is empty and open.
Read(r) ==
    /\ pc[r] = "read"
    /\ \/ /\ proc[r].avail > 0
          /\ proc' = [proc EXCEPT ![r].avail = @ - 1]
          /\ Goto(r, "yield")
       \/ /\ proc[r].avail = 0
          /\ proc[r].st = "exited"
          /\ Goto(r, "finally")
          /\ UNCHANGED proc
    /\ UNCHANGED <<hour, committed, txn, db_pool, used, conn, ep, auth, user_id, count, body,
                   resp, tempdir, files, sent, gone, log>>

\* chunk = f.read(8192) on the audio file.
ReadFile(r) ==
    /\ pc[r] = "read_file"
    /\ IF files[r].unread > 0
       THEN /\ files' = [files EXCEPT ![r].unread = @ - 1]
            /\ Goto(r, "yield")
       ELSE /\ Goto(r, "finally")
            /\ UNCHANGED files
    /\ UNCHANGED <<hour, committed, txn, db_pool, used, conn, ep, auth, user_id, count, body,
                   resp, tempdir, proc, sent, gone, log>>

\* yield chunk: the client takes it and the server pulls the next one, or the
\* client is gone and the server closes the generator: GeneratorExit at the
\* yield, into the finally.
Yield(r) ==
    /\ pc[r] = "yield"
    /\ \/ /\ sent' = [sent EXCEPT ![r] = @ + 1]
          /\ Goto(r, IF ep[r] = "stream" THEN "read" ELSE "read_file")
          /\ UNCHANGED gone
       \/ /\ gone' = [gone EXCEPT ![r] = TRUE]
          /\ Goto(r, "finally")
          /\ UNCHANGED sent
    /\ UNCHANGED <<hour, committed, txn, db_pool, used, conn, ep, auth, user_id, count, body,
                   resp, tempdir, files, proc, log>>

\* tiktok_stream's finally: process.stderr.read() returns at end of file, that
\* is once the subprocess has exited; then the pipes are closed and
\* process.wait() reaps it.  The subprocess is sent no signal.
FinallyStream(r) ==
    /\ pc[r] = "finally"
    /\ ep[r] = "stream"
    /\ proc[r].st = "exited"
    /\ proc' = [proc EXCEPT ![r].st = "reaped", ![r].avail = 0]
    /\ Goto(r, "done")
    /\ UNCHANGED <<hour, committed, txn, db_pool, used, conn, ep, auth, user_id, count, body,
                   resp, tempdir, files, sent, gone, log>>

\* tiktok_mp3's finally: shutil.rmtree(temp_dir, ignore_errors=True).
FinallyMp3(r) ==
    /\ pc[r] = "finally"
    /\ ep[r] = "mp3"
    /\ Cleanup(r)
    /\ log' = [log EXCEPT ![r].cleanups = @ + 1]
    /\ Goto(r, "done")
    /\ UNCHANGED <<hour, committed, txn, db_pool, used, conn, ep, auth, user_id, count, body,
                   resp, proc, sent, gone>>

(***************************************************************************)
(* tiktok_mp3 after the checks: mkdtemp, the download, the transcoding,    *)
(* then the response whose body is the generator reading audio.mp3.        *)
(***************************************************************************)
\* Sizes a produced file may have: one byte short of the least size, and
\* exactly that size; -1: the file does not exist.
FileSizes == {-1, MIN_FILE_SIZE - 1, MIN_FILE_SIZE}

\* Mutant: only the existence of the file is checked.
too_small_missing(size) == size = -1

\* Mutant: a file one byte short of 1024 bytes is accepted.
too_small_short(size) == size = -1 \/ size < MIN_FILE_SIZE - 1

\* not os.path.exists(path) or os.path.getsize(path) < 1024
too_small(size) == size = -1 \/ size < MIN_FILE_SIZE

\* temp_dir = tempfile.mkdtemp(prefix="tiktok_mp3_")
Mkdtemp(r) ==
    /\ pc[r] = "mkdtemp"
    /\ tempdir' = [tempdir EXCEPT ![r] = "exists"]
    /\ Goto(r, "download")
    /\ UNCHANGED <<hour, committed, txn, db_pool, used, conn, ep, auth, user_id, count, body,
                   resp, files, proc, sent, gone, log>>

\* subprocess.run([...], check=True) starts its program, or raises OSError
\* when the program cannot be launched: that is no CalledProcessError, so the
\* except clause does not catch it and it leaves the view function.
RunStart(r) ==
    /\ pc[r] \in {"download", "transcode"}
    /\ \/ /\ proc' = [proc EXCEPT ![r] = [NoProc EXCEPT !.st = "running"]]
          /\ log' = [log EXCEPT ![r].spawns =
                        Append(@, IF pc[r] = "download" THEN "yt_dlp" ELSE "ffmpeg")]
          /\ body' = [body EXCEPT ![r] = Passed]
          /\ Goto(r, IF pc[r] = "download" THEN "downloading" ELSE "transcoding")
          /\ UNCHANGED resp
       \/ /\ Finish(r, Unhandled)
          /\ UNCHANGED <<proc, log, body>>
    /\ UNCHANGED <<hour, committed, txn, db_pool, used, conn, ep, auth, user_id, count,
                   tempdir, files, sent, gone>>

\* except subprocess.CalledProcessError as e: rmtree, then 500 with
\* e.stderr.decode() as "details".
RunFailed(r) ==
    /\ Cleanup(r)
    /\ log' = [log EXCEPT ![r].cleanups = @ + 1]
    /\ Finish(r, Resp(500, "subprocess stderr", -1, 0))

\* The download ends (subprocess.run waits for it): a non-zero status raises
\* CalledProcessError; a missing or undersized video.mp4 is answered 500
\* after rmtree; else the transcoding is next.
DownloadEnd(r) ==
    /\ pc[r] = "downloading"
    /\ \E rc \in {0, 1}, size \in FileSizes :
        /\ proc' = [proc EXCEPT ![r].st = "reaped", ![r].rc = rc]
        /\ IF rc # 0
           THEN RunFailed(r)
           ELSE IF too_small(size)
           THEN /\ Cleanup(r)
                /\ log' = [log EXCEPT ![r].cleanups = @ + 1, ![r].video = size]
                /\ Finish(r, Resp(500, "Downloaded video is empty", -1, 0))
           ELSE /\ files' = [files EXCEPT ![r].video = size]
                /\ log' = [log EXCEPT ![r].video = size]
                /\ Goto(r, "transcode")
                /\ UNCHANGED <<resp, tempdir>>
    /\ UNCHANGED <<hour, committed, txn, db_pool, used, conn, ep, auth, user_id, count, body,
                   sent, gone>>

\* The transcoding ends: a non-zero status raises CalledProcessError; a
\* missing or undersized audio.mp3 is answered 409 after rmtree; else the
\* Response (status 200, Content-Length mp3_size) is returned with the
\* generator not yet started.
TranscodeEnd(r) ==
    /\ pc[r] = "transcoding"
    /\ \E rc \in {0, 1}, size \in FileSizes :
        /\ proc' = [proc EXCEPT ![r].st = "reaped", ![r].rc = rc]
        /\ IF rc # 0
           THEN RunFailed(r)
           ELSE IF too_small(size)
           THEN /\ Cleanup(r)
                /\ log' = [log EXCEPT ![r].cleanups = @ + 1, ![r].audio = size]
                /\ Finish(r, Resp(409, "MP3 extraction failed", -1, 0))
           ELSE /\ files' = [files EXCEPT ![r].audio = size]
                /\ log' = [log EXCEPT ![r].audio = size]
                /\ Goto(r, "gen_ready")
                /\ resp' = [resp EXCEPT ![r] = Resp(200, "audio", -1, size)]
                /\ UNCHANGED tempdir
    /\ UNCHANGED <<hour, committed, txn, db_pool, used, conn, ep, auth, user_id, count, body,
                   sent, gone>>

Next ==
    \/ Tick
    \/ \E r \in Req :
        \/ Arrive(r)
        \/ Verify(r)
        \/ FindNoPool(r)
        \/ MakePool(r)
        \/ GetConn(r)
        \/ Execute(r)
        \/ Release(r)
        \/ CheckQuota(r)
        \/ ParseBody(r)
        \/ Probe(r)
        \/ StartBody(r)
        \/ ProcWrite(r)
        \/ ProcExit(r)
        \/ Read(r)
        \/ ReadFile(r)
        \/ Yield(r)
        \/ FinallyStream(r)
        \/ FinallyMp3(r)
        \/ Mkdtemp(r)
        \/ RunStart(r)
        \/ DownloadEnd(r)
        \/ TranscodeEnd(r)

Spec == Init /\ [][Next]_vars

\* The steps of a request's own thread.  The server's threads are scheduled
\* fairly; nothing makes a subprocess or a client go on.
Thread(r) ==
    \/ Verify(r) \/ FindNoPool(r) \/ MakePool(r) \/ GetConn(r) \/ Execute(r) \/ Release(r) \/ CheckQuota(r)
    \/ ParseBody(r) \/ Probe(r) \/ Read(r) \/ ReadFile(r)
    \/ FinallyStream(r) \/ FinallyMp3(r) \/ Mkdtemp(r) \/ RunStart(r)

FairSpec == Spec /\ \A r \in Req : WF_vars(Thread(r))

\* The relay with a subprocess that goes on whenever it can (it writes what
\* it has to write and then exits) and a client that takes each chunk or
\* disconnects.
RelaySpec ==
    /\ Spec
    /\ \A r \in Req :
        /\ WF_vars(Thread(r))
        /\ WF_vars(ProcWrite(r))
        /\ WF_vars(ProcExit(r))
        /\ WF_vars(Yield(r))

(***************************************************************************)
(* The claims.                                                             *)
(***************************************************************************)
InIncrement(r) == pc[r] \in {"getconn", "mkpool", "execute", "release", "release_exc"}

\* The requests of u whose upsert counted in bucket b.
Counted(u, b) == {r \in Req : log[r].upserts = 1 /\ user_id[r] = u /\ log[r].bucket = b}

\* C1: once the N requests of an identity that ran increment_usage in one
\* hour bucket have all left it, the stored count of (identity, bucket) has
\* grown by N and the counts returned are the N values that follow the
\* count stored before, without duplicates.
C1_NoLostIncrement ==
    \A u \in Users, b \in Hours :
        (\A r \in Req : ~InIncrement(r)) =>
            /\ committed[u][b] = InitRow(u, b) + Cardinality(Counted(u, b))
            /\ {count[r] : r \in Counted(u, b)} =
                   (InitRow(u, b) + 1)..(InitRow(u, b) + Cardinality(Counted(u, b)))

\* increment_usage has returned a count and the request is past the quota
\* check.
PastQuota(r) == count[r] # 0 /\ pc[r] # "quota"

\* C2: on both endpoints a request whose increment returned a count is
\* answered 429 if and only if that count is above QUOTA_PER_HOUR.
C2_QuotaBoundary ==
    \A r \in Req :
        PastQuota(r) => (resp[r].status = 429 <=> count[r] > QUOTA_PER_HOUR)

\* A request at the threshold has gone on to the body, one above it has
\* been answered 429, one on each endpoint.
C2_Witness ==
    \E r, q \in Req :
        /\ ep[r] = "stream" /\ ep[q] = "mp3"
        /\ PastQuota(r) /\ count[r] = QUOTA_PER_HOUR /\ pc[r] = "probe"
        /\ PastQuota(q) /\ count[q] = QUOTA_PER_HOUR + 1
        /\ pc[q] = "done" /\ resp[q].status = 429

\* C3: every 429 response carries as reset_at the start of the hour that
\* follows the hour bucket the request was counted in.
C3_ResetAtNextHour ==
    \A r \in Req : resp[r].status = 429 => resp[r].reset_at = log[r].bucket + 1

\* C4: the url is checked before the quota increment: a request answered
\* 400 has executed no upsert on the usage counter.
C4_BadUrlNoIncrement ==
    \A r \in Req : resp[r].status = 400 => log[r].upserts = 0

\* C5: a request whose header is absent, is not a Bearer header, or whose
\* token fails the signature, issuer, audience or expiry check (or names no
\* subject) is answered the one 401 response, and has made no increment,
\* started no subprocess and created no temporary directory.
C5_Uniform401 ==
    \A r \in Req :
        auth[r] \in BadHeaders =>
            /\ pc[r] = "done"
            /\ resp[r] = Resp(401, "Unauthorized", -1, 0)
            /\ log[r] = NoLog
            /\ proc[r] = NoProc
            /\ tempdir[r] = "none"

\* One request without a header and one with an expired token, both
\* answered.
C5_Witness ==
    \E r, q \in Req :
        /\ auth[r] = NoHeader /\ resp[r].status = 401
        /\ auth[q] = Hdr("Bearer", TRUE, TRUE, TRUE, FALSE, "u1") /\ resp[q].status = 401

\* C6: when the store fails in increment_usage the request ends in the 500
\* of an unhandled exception, neither a 429 nor a success, and it makes no
\* probe, starts no subprocess, creates no directory and sends no byte.
C6_FailClosed ==
    \A r \in Req :
        log[r].failed =>
            /\ pc[r] \in {"release_exc", "done"}
            /\ resp[r] = IF pc[r] = "done" THEN Unhandled ELSE NoResp
            /\ log[r].probes = 0 /\ log[r].spawns = <<>>
            /\ proc[r] = NoProc /\ tempdir[r] = "none" /\ sent[r] = 0

\* Both requests met a failure of the store and are answered, and no
\* connection is left checked out.
C6_Witness ==
    \E r, q \in Req :
        /\ r # q
        /\ log[r].failed /\ log[q].failed
        /\ pc[r] = "done" /\ pc[q] = "done"
        /\ \A p \in Req : used[p] = 0

\* C7: once a tiktok_mp3 request that created its temporary directory has
\* reached a terminal outcome, whichever it is, the directory is removed.
C7_TempDirRemoved ==
    \A r \in Req : (pc[r] = "done" /\ tempdir[r] # "none") => tempdir[r] = "removed"

\* C8: in the video path, a subprocess that is running when the client has
\* disconnected is eventually reaped, whether or not it ever ends by itself.
C8_DisconnectReaps ==
    \A r \in Req : (gone[r] /\ proc[r].st = "running") ~> (proc[r].st = "reaped")

\* C9: once the cleanup of a task has run, running it again raises no error
\* and changes nothing: the directory stays removed with no file in it, and
\* the task's subprocess is reaped.
C9_CleanupIdempotent ==
    \A r \in Req :
        log[r].cleanups >= 1 =>
            /\ ~cleanup(tempdir[r]).raised
            /\ cleanup(tempdir[r]).dir = tempdir[r]
            /\ tempdir[r] = "removed"
            /\ files[r] = NoFiles
            /\ proc[r].st = "reaped"

\* The cleanup has run on the three paths that reach it: after a failed
\* subprocess or an undersized file, and in the generator's finally.
C9_Witness ==
    \E r, q \in Req :
        /\ log[r].cleanups = 1 /\ resp[r].status = 200 /\ pc[r] = "done"
        /\ log[q].cleanups = 1 /\ resp[q].status \in {409, 500} /\ pc[q] = "done"

\* C10: when the transcoder has exited with status 0, the response is 409
\* exactly when audio.mp3 is missing or smaller than 1024 bytes; a 409 comes
\* with the directory removed and no audio chunk sent.
C10_UndersizedAudio ==
    \A r \in Req :
        log[r].audio # -2 =>
            /\ resp[r].status = 409 <=> (log[r].audio = -1 \/ log[r].audio < MIN_FILE_SIZE)
            /\ resp[r].status = 409 =>
                    pc[r] = "done" /\ tempdir[r] = "removed" /\ sent[r] = 0

\* One transcoding left 1023 bytes and was answered 409, another left
\* exactly 1024 bytes and is being streamed.
C10_Witness ==
    \E r, q \in Req :
        /\ log[r].audio = MIN_FILE_SIZE - 1 /\ resp[r].status = 409
        /\ log[q].audio = MIN_FILE_SIZE /\ resp[q].status = 200 /\ sent[q] = 1

\* The bodies that carry the text of an external tool: str(e) of the
\* extractor's exception (line 167), e.stderr.decode() of a failed
\* subprocess (line 284).
RawDiagnostics == {"extractor message", "subprocess stderr"}

\* C11: no response of either endpoint carries the raw diagnostic text of an
\* external tool, neither the extractor's exception message nor the stderr
\* captured from a subprocess.
C11_NoRawDiagnostics ==
    \A r \in Req : resp[r].body \notin RawDiagnostics

\* The bodies the two endpoints refuse with "Invalid or missing URL".
BadBody(b) ==
    \/ b.kind \in {"nojson", "emptyobj", "list", "nourl", "nullurl", "numurl"}
    \/ b.kind = "str" /\ (b.url = <<>> \/ ~is_valid_tiktok_url(b.url))

\* C12: on both endpoints an authenticated request within its quota whose
\* body is absent, is no JSON object with a url, or has a null, empty or
\* unsupported url is answered 400, and has started no subprocess and
\* created no temporary directory.
C12_BadBody400 ==
    \A r \in Req :
        BadBody(body[r]) =>
            /\ resp[r].status = 400
            /\ log[r].spawns = <<>> /\ proc[r] = NoProc /\ tempdir[r] = "none"

\* C13: in the video path, once the probe has returned, the response is the
\* 200 of the stream whether or not the probe reported a size, and it
\* carries a Content-Length exactly when the probe reported one.
C13_LengthOnlyIfKnown ==
    \A r \in Req :
        (ep[r] = "stream" /\ log[r].size # -2) =>
            /\ resp[r].status = 200
            /\ resp[r].clen # 0 <=> log[r].size # 0

\* C14: every connection taken by increment_usage is given back on each of
\* its exits: no pool has more than maxconn connections in use, none has a
\* connection in use while no request is inside increment_usage, and a
\* request outside increment_usage holds no connection.
C14_PoolDiscipline ==
    /\ \A p \in Req : used[p] <= maxconn
    /\ (\A r \in Req : ~InIncrement(r)) => \A p \in Req : used[p] = 0
    /\ \A r \in Req : ~InIncrement(r) => conn[r] = None

\* The pieces a path or query starts with, and the host of a url: its pieces
\* between the scheme and the path.
PathStarts == {"/@u/video/1", "/ZM1", "/v/1", "/?u="}

HostEnd(url) ==
    CHOOSE i \in 2..(Len(url) + 1) :
        /\ i = Len(url) + 1 \/ url[i] \in PathStarts
        /\ \A j \in 2..(i - 1) : url[j] \notin PathStarts

Host(url) == SubSeq(url, 2, HostEnd(url) - 1)

SupportedHosts == {<<"tiktok.com">>, <<"www.", "tiktok.com">>, <<"vm.", "tiktok.com">>}

\* C15: a url that has passed is_valid_tiktok_url has the supported domain,
\* its www form or the vm short-link host as its host; a url of another
\* host does not pass, wherever else the domain's name appears in it.
C15_HostIsSupported ==
    \A r \in Req :
        (body[r].kind = "str" /\ pc[r] \in {"probe", "mkdtemp", "download"}) =>
            Host(body[r].url) \in SupportedHosts

\* C16: every request that passed the token check and reached the ledger is
\* counted in the record of its identity and hour bucket, whatever becomes
\* of it afterwards: once increment_usage has returned it a count, the
\* stored count is at least that count.
C16_EveryAttemptCounted ==
    \A r \in Req :
        count[r] # 0 => committed[user_id[r]][log[r].bucket] >= count[r]

\* The request is at the probe or has made one, has started a subprocess or
\* has created its temporary directory.
Working(r) ==
    \/ pc[r] = "probe" \/ log[r].probes > 0
    \/ log[r].spawns # <<>> \/ proc[r] # NoProc
    \/ tempdir[r] # "none"

\* C17: a probe, a subprocess or a temporary directory belongs to a request
\* that was authenticated and whose increment returned a count of at most
\* QUOTA_PER_HOUR; a request answered 401 or 429 has none of them.
C17_AuthQuotaThenWork ==
    \A r \in Req :
        /\ Working(r) => (user_id[r] \in Users /\ count[r] \in 1..QUOTA_PER_HOUR)
        /\ resp[r].status \in {401, 429} => ~Working(r)

\* A request counted at the threshold runs its subprocess in its temporary
\* directory while a request counted above it has been answered 429.
C17_Witness ==
    \E r, q \in Req :
        /\ count[r] = QUOTA_PER_HOUR /\ tempdir[r] = "exists" /\ proc[r].st = "running"
        /\ count[q] = QUOTA_PER_HOUR + 1 /\ resp[q].status = 429

\* The request has started the transcoder.
Transcoded(r) == \E i \in 1..Len(log[r].spawns) : log[r].spawns[i] = "ffmpeg"

\* C18: in the audio path the transcoder is started only after the download
\* has exited with status 0 and left a video.mp4 of at least 1024 bytes; a
\* chunk of audio is sent only after the transcoder has exited with status
\* 0; after a download that exited non-zero or left an undersized video the
\* transcoder is not started and the response is 500.
C18_AudioOrdering ==
    \A r \in Req :
        ep[r] = "mp3" =>
            /\ Transcoded(r) => log[r].video >= MIN_FILE_SIZE
            /\ (pc[r] = "yield" \/ sent[r] > 0) =>
                    /\ Transcoded(r) /\ log[r].audio # -2
                    /\ proc[r].st = "reaped" /\ proc[r].rc = 0
            /\ ( /\ log[r].spawns = <<"yt_dlp">> /\ proc[r].st = "reaped"
                 /\ (proc[r].rc # 0 \/ (log[r].video # -2 /\ log[r].video < MIN_FILE_SIZE)) ) =>
                    pc[r] = "done" /\ resp[r].status = 500

\* One download left exactly 1024 bytes and its audio is being sent, another
\* left 1023 bytes and was answered 500 without a transcoder.
C18_Witness ==
    \E r, q \in Req :
        /\ ep[r] = "mp3" /\ log[r].video = MIN_FILE_SIZE /\ sent[r] = 1
        /\ ep[q] = "mp3" /\ log[q].video = MIN_FILE_SIZE - 1
        /\ ~Transcoded(q) /\ resp[q].status = 500

\* C19: a request of an identity in an hour bucket reads and writes the
\* record of that identity and bucket only: the count it is returned lies
\* between the count stored before and that count plus the requests of the
\* same identity counted in the same bucket (1 for the first request of a new
\* bucket), a record no request was counted in is unchanged, and a 429 is
\* owed to the requester's own record.
C19_QuotaIsolation ==
    /\ \A r \in Req :
        /\ txn[r].open => (txn[r].user = user_id[r] /\ txn[r].bucket = log[r].bucket)
        /\ count[r] # 0 =>
            LET u == user_id[r]
                b == log[r].bucket
            IN  /\ count[r] \in (InitRow(u, b) + 1)..(InitRow(u, b) + Cardinality(Counted(u, b)))
                /\ resp[r].status = 429 =>
                        InitRow(u, b) + Cardinality(Counted(u, b)) > QUOTA_PER_HOUR
    /\ \A u \in Users, b \in Hours :
        Counted(u, b) = {} => committed[u][b] = InitRow(u, b)

\* An identity over the threshold in bucket 0 is answered 429 there, and its
\* first request of bucket 1 is returned count 1 and goes on.
C19_Witness ==
    \E r, q \in Req :
        /\ user_id[q] = "u2" /\ log[q].bucket = 0 /\ resp[q].status = 429
        /\ user_id[r] = "u2" /\ log[r].bucket = 1 /\ count[r] = 1 /\ pc[r] = "body"

\* C20: the video relay does not deadlock with its subprocess: a subprocess
\* that has a finite amount to write and then exits, relayed to a client that
\* reads to the end or disconnects at some chunk, is eventually reaped and
\* the generator returns.
C20_RelayTerminates ==
    \A r \in Req :
        (ep[r] = "stream" /\ proc[r].st = "running") ~>
            (proc[r].st = "reaped" /\ pc[r] = "done")
=============================================================================
